---- MODULE Spec2Model ----
(***************************************************************************)
(* SearchEdgeX: the Cloudflare worker src/cloudflare-functions/search.js.  *)
(*                                                                         *)
(* Text is a sequence of lexemes.  A lexeme is either one character that   *)
(* the code treats specially ("%", "/", "&", "=", "?", ":", "+", " ", a    *)
(* quote, a hex digit) or a word of ordinary characters that no operation  *)
(* of the code splits ("https", "a.com", "search", ...).  Percent          *)
(* decoding, URL query parsing, startsWith / includes and the loops of the *)
(* extractors are computed on these sequences as the code computes them.   *)
(*                                                                         *)
(* An upstream HTML page is a sequence of result elements.  An element has *)
(* a markup layout, an href and a title; which of the extractor's regular  *)
(* expressions match an element, and what they capture, is computed from   *)
(* the layout and the href as the regular expression does.                 *)
(***************************************************************************)
EXTENDS Integers, Sequences, FiniteSets, TLC

VARIABLES pc, req, q, maxResults, searchEngine, vqd, calls, inflight, upstream, resp

vars == <<pc, req, q, maxResults, searchEngine, vqd, calls, inflight, upstream, resp>>

---------------------------------------------------------------------------
(* Strings *)

\* JavaScript null / undefined (a parameter or a field that is absent).
Null == <<"<null>">>

\* x || d on strings: null and "" are falsy.
OrElse(x, d) == IF x = Null \/ x = <<>> THEN d ELSE x

Truthy(x) == x # Null /\ x # <<>>

RECURSIVE TrimStart(_)
TrimStart(s) ==
  IF s # <<>> /\ Head(s) = " " THEN TrimStart(Tail(s)) ELSE s

RECURSIVE TrimEnd(_)
TrimEnd(s) ==
  IF s # <<>> /\ s[Len(s)] = " " THEN TrimEnd(SubSeq(s, 1, Len(s) - 1)) ELSE s

\* String.prototype.trim
Trim(s) == TrimEnd(TrimStart(s))

\* s.startsWith(p), p a sequence of lexemes
StartsWith(s, p) == Len(s) >= Len(p) /\ SubSeq(s, 1, Len(p)) = p

\* s.slice(i) (1-based)
From(s, i) == SubSeq(s, i, Len(s))

\* the least index >= i at which lexeme c occurs in s, or Len(s) + 1
RECURSIVE IndexOf(_, _, _)
IndexOf(s, c, i) ==
  IF i > Len(s) THEN Len(s) + 1
  ELSE IF s[i] = c THEN i
  ELSE IndexOf(s, c, i + 1)

\* s.split(c)
RECURSIVE Split(_, _)
Split(s, c) ==
  LET k == IndexOf(s, c, 1) IN
    IF k > Len(s) THEN <<s>>
    ELSE <<SubSeq(s, 1, k - 1)>> \o Split(From(s, k + 1), c)

HexDigits == {"2", "5", "F"}

\* the bytes %hl that are ASCII, and their characters
AsciiByte(h, l) == h \in {"2", "5"} /\ l \in HexDigits

ByteChar(h, l) ==
  CASE h = "2" /\ l = "2" -> "\""
    [] h = "2" /\ l = "5" -> "%"
    [] h = "2" /\ l = "F" -> "/"
    [] h = "5" /\ l = "2" -> "R"
    [] h = "5" /\ l = "5" -> "U"
    [] OTHER              -> "_"

IsEscape(s) == Len(s) >= 3 /\ s[1] = "%" /\ s[2] \in HexDigits /\ s[3] \in HexDigits

\* decodeURIComponent throws URIError on a "%" that does not start %XX, and on
\* a byte >= 0x80 that is no well-formed UTF-8 (with the hex digits 2, 5, F the
\* bytes F2, F5, FF can never be followed by a continuation byte 80..BF).
RECURSIVE CanDecode(_)
CanDecode(s) ==
  IF s = <<>> THEN TRUE
  ELSE IF Head(s) # "%" THEN CanDecode(Tail(s))
  ELSE IsEscape(s) /\ AsciiByte(s[2], s[3]) /\ CanDecode(From(s, 4))

RECURSIVE PctDecode(_)
PctDecode(s) ==
  IF s = <<>> THEN <<>>
  ELSE IF IsEscape(s) /\ AsciiByte(s[2], s[3])
       THEN <<ByteChar(s[2], s[3])>> \o PctDecode(From(s, 4))
  ELSE <<Head(s)>> \o PctDecode(Tail(s))

\* decodeURIComponent(s): [threw, val]
decodeURIComponent(s) ==
  IF CanDecode(s) THEN [threw |-> FALSE, val |-> PctDecode(s)]
  ELSE [threw |-> TRUE, val |-> <<>>]

\* The decoding URLSearchParams applies to names and values: "+" is a space,
\* a well-formed %XX is its byte, anything else stays as it is, and a byte that
\* is no UTF-8 becomes U+FFFD.  It never throws.
RECURSIVE FormDecode(_)
FormDecode(s) ==
  IF s = <<>> THEN <<>>
  ELSE IF Head(s) = "+" THEN <<" ">> \o FormDecode(Tail(s))
  ELSE IF IsEscape(s)
       THEN <<IF AsciiByte(s[2], s[3]) THEN ByteChar(s[2], s[3]) ELSE "<FFFD>">>
            \o FormDecode(From(s, 4))
  ELSE <<Head(s)>> \o FormDecode(Tail(s))

---------------------------------------------------------------------------
(* new URL(...) and URL.searchParams, on the URLs the engines emit *)

Schemes == {"http", "https"}

Hosts == {"duckduckgo.com", "www.google.com", "www.bing.com",
          "go.microsoft.com", "a.com", "b.com"}

\* new URL(s) succeeds: an absolute http(s) URL, the host followed by nothing,
\* a path or a query.  A relative reference ("/l/?uddg=...") or a bare word has
\* no scheme, and an escape right after the host (%2F, %25) puts a forbidden
\* code point in the host: for both the constructor throws TypeError.
UrlParses(s) ==
  /\ Len(s) >= 5
  /\ s[1] \in Schemes
  /\ SubSeq(s, 2, 4) = <<":", "/", "/">>
  /\ s[5] \in Hosts
  /\ Len(s) >= 6 => s[6] \in {"/", "?"}

\* the query of a parsed URL: what follows the first "?"
UrlQuery(s) == From(s, IndexOf(s, "?", 1) + 1)

\* the (name, value) pairs of the query, decoded as URLSearchParams decodes
QueryPairs(qs) ==
  LET parts == Split(qs, "&")
      Pair(p) == LET e == IndexOf(p, "=", 1) IN
                   [name  |-> FormDecode(SubSeq(p, 1, e - 1)),
                    value |-> FormDecode(From(p, e + 1))]
  IN [i \in 1..Len(parts) |-> Pair(parts[i])]

\* url.searchParams.get(name): the first pair of that name, or null
SearchParamsGet(s, name) ==
  LET pairs == QueryPairs(UrlQuery(s))
      hits  == {i \in 1..Len(pairs) :
                  /\ Split(UrlQuery(s), "&")[i] # <<>>
                  /\ pairs[i].name = name}
  IN IF hits = {} THEN Null
     ELSE pairs[CHOOSE i \in hits : \A j \in hits : i <= j].value

\* decodeRedirectUrl: [threw, val].  Everything runs inside try { } catch, so
\* a TypeError of new URL and a URIError of decodeURIComponent both end in
\* "return ddgUrl".
decodeRedirectUrl(ddgUrl) ==
  LET u    == IF StartsWith(ddgUrl, <<"/", "/">>)
              THEN <<"https", ":">> \o ddgUrl ELSE ddgUrl
      uddg == SearchParamsGet(u, <<"uddg">>)
      kl   == SearchParamsGet(u, <<"kl">>)
      ret(v) == [threw |-> FALSE, val |-> v]
  IN IF ~UrlParses(u) THEN ret(ddgUrl)
     ELSE IF Truthy(uddg)
          THEN IF decodeURIComponent(uddg).threw THEN ret(ddgUrl)
               ELSE ret(decodeURIComponent(uddg).val)
     ELSE IF Truthy(kl)
          THEN IF decodeURIComponent(kl).threw THEN ret(ddgUrl)
               ELSE ret(decodeURIComponent(kl).val)
     ELSE ret(ddgUrl)

---------------------------------------------------------------------------
(* Upstream pages and the regular expressions of the extractors *)

\* markup of the title that /<[^>]+>/g removes
Tags == {"<b>", "</b>"}

\* match[2].replace(/<[^>]+>/g, "").trim()
StripTitle(t) == Trim(SelectSeq(t, LAMBDA c : c \notin Tags))

\* s.includes(p): p gives, for each place of the searched text, the lexemes
\* that hold it there (a word that ends, or begins, with the searched word).
Includes(s, p) ==
  \E i \in 1..Len(s) :
    /\ i + Len(p) - 1 <= Len(s)
    /\ \A k \in 1..Len(p) : s[i + k - 1] \in p[k]

\* url.startsWith('http')
StartsWithHttp(s) == s # <<>> /\ s[1] \in Schemes

UrlQ == <<"/", "url", "?", "q", "=">>

\* href="\/url\?q=([^"&]+)[^"]*": the href starts with /url?q= and the
\* capture is what follows, up to the first "&"; it is not empty
UrlQCapture(href) ==
  IF StartsWith(href, UrlQ) /\ Len(href) >= 6 /\ href[6] # "&"
  THEN SubSeq(href, 6, IndexOf(href, "&", 6) - 1)
  ELSE Null

\* href="(https?:\/\/[^"]+)"
HttpCapture(href) ==
  IF /\ Len(href) >= 5
     /\ href[1] \in Schemes
     /\ SubSeq(href, 2, 4) = <<":", "/", "/">>
  THEN href ELSE Null

\* href="([^"]+)"
AnyCapture(href) == IF href # <<>> THEN href ELSE Null

\* linkRegex of extractResultsLite: an anchor whose class holds result__a
LiteCapture(e) ==
  IF e.layout = "result__a" THEN AnyCapture(e.href) ELSE Null

\* The five expressions of extractGoogleResults.  Layouts of an element:
\*   "yuRUbf"    <div class="yuRUbf"><a href="H"><h3>T</h3></a></div>
\*   "plain"     <a href="H"><h3>T</h3></a>
\*   "jsname"    <a jsname="j" href="H">text<h3>T</h3></a>
\*   "data-ved"  <a href="H" data-ved="v"><br><div><div><div><h3>T</h3>...</a>
GoogleCapture(n, e) ==
  CASE n = 1 -> IF e.layout \in {"yuRUbf", "plain"} THEN UrlQCapture(e.href) ELSE Null
    [] n = 2 -> IF e.layout \in {"yuRUbf", "plain"} THEN HttpCapture(e.href) ELSE Null
    [] n = 3 -> IF e.layout = "jsname" THEN UrlQCapture(e.href) ELSE Null
    [] n = 4 -> IF e.layout = "yuRUbf" THEN AnyCapture(e.href) ELSE Null
    [] OTHER -> IF e.layout = "data-ved" THEN AnyCapture(e.href) ELSE Null

\* The four expressions of extractBingResults.  Layouts of an element:
\*   "b_algo"   <li class="b_algo"><h2><a href="H">T</a></h2></li>
\*   "h2"       <h2><a href="H">T</a></h2>
\*   "b_title"  <div class="b_title"><h2><a href="H">T</a></h2></div>
\*   "a_h2"     <a href="H"><h2>T</h2></a>
BingCapture(n, e) ==
  CASE n = 1 -> IF e.layout = "b_algo" THEN AnyCapture(e.href) ELSE Null
    [] n = 3 -> IF e.layout = "b_title" THEN AnyCapture(e.href) ELSE Null
    [] OTHER -> IF e.layout = "a_h2" THEN AnyCapture(e.href) ELSE Null

\* the capture of element e by expression n of an extractor, or Null
Capture(extractor, n, e) ==
  CASE extractor = "extractResultsLite"   -> LiteCapture(e)
    [] extractor = "extractGoogleResults" -> GoogleCapture(n, e)
    [] OTHER                              -> BingCapture(n, e)

\* what regex.exec yields over the page from element i on: the matches of the
\* elements in page order, n being the number of the expression
RECURSIVE MatchesFrom(_, _, _, _)
MatchesFrom(doc, n, extractor, i) ==
  IF i > Len(doc) THEN <<>>
  ELSE LET c == Capture(extractor, n, doc[i]) IN
         (IF c # Null
          THEN <<[pos |-> i, pat |-> n, url |-> c, title |-> doc[i].title]>>
          ELSE <<>>) \o MatchesFrom(doc, n, extractor, i + 1)

Matches(doc, n, extractor) == MatchesFrom(doc, n, extractor, 1)

\* const regexPatterns = [linkRegex4, linkRegex1, linkRegex2, linkRegex3, linkRegex5]
GooglePatterns == <<4, 1, 2, 3, 5>>

\* s, last lexeme first
Reverse(s) == [i \in 1..Len(s) |-> s[Len(s) + 1 - i]]

\* the matches of an expression handed over last match first
GoogleMatches_reversed(n, doc) ==
  Reverse(Matches(doc, n, "extractGoogleResults"))

GoogleMatches(n, doc) == Matches(doc, n, "extractGoogleResults")

\* linkRegex2, /<h2[^>]*>.*?<a[^>]*href="([^"]+)"[^>]*>(.*?)<\/a>.*?<\/h2>/gis,
\* scanning from element i.  From the <h2> of an "a_h2" element the lazy .*?
\* runs on to the anchor of the next element (the flag s lets it cross lines):
\* that element is the one captured, and when it is an "a_h2" too the closing
\* .*?<\/h2> consumes the element after it.
RECURSIVE BingH2Matches(_, _)
BingH2Matches(doc, i) ==
  LET m(j) == <<[pos |-> j, pat |-> 2, url |-> doc[j].href, title |-> doc[j].title]>> IN
  IF i > Len(doc) THEN <<>>
  ELSE IF doc[i].layout # "a_h2" THEN m(i) \o BingH2Matches(doc, i + 1)
  ELSE IF i + 1 > Len(doc) THEN <<>>
  ELSE IF doc[i + 1].layout # "a_h2" THEN m(i + 1) \o BingH2Matches(doc, i + 2)
  ELSE IF i + 2 > Len(doc) THEN <<>>
  ELSE m(i + 1) \o BingH2Matches(doc, i + 3)

\* const regexPatterns = [linkRegex1, linkRegex2, linkRegex3, linkRegex4]
BingPatterns == <<1, 2, 3, 4>>

BingMatches(n, doc) ==
  IF n = 2 THEN BingH2Matches(doc, 1)
  ELSE Matches(doc, n, "extractBingResults")

---------------------------------------------------------------------------
(* The extractors.  A record carries, besides title and url, the place pos *)
(* of the element it was taken from and the number pat of the expression   *)
(* that matched it; the code holds no such fields and no step of the model *)
(* reads them.                                                             *)

\* the search for a record of the same url always coming back empty
HasUrl_never(rs, u) == FALSE

\* results.find(r => r.url === decodedUrl), lines 147 and 174
HasUrl(rs, u) == \E k \in 1..Len(rs) : rs[k].url = u

\* extractResultsLite: [threw, results]
RECURSIVE LiteLoop(_, _, _, _)
LiteLoop(ms, k, rs, limit) ==
  IF k > Len(ms) \/ Len(rs) >= limit THEN [threw |-> FALSE, results |-> rs]
  ELSE LET href    == ms[k].url
           title   == StripTitle(ms[k].title)
           realUrl == decodeRedirectUrl(href)
       IN IF ~(Truthy(href) /\ title # <<>>) THEN LiteLoop(ms, k + 1, rs, limit)
          ELSE IF realUrl.threw THEN [threw |-> TRUE, results |-> <<>>]
          ELSE LiteLoop(ms, k + 1,
                 Append(rs, [title |-> title, url |-> realUrl.val, pos |-> ms[k].pos,
                             pat |-> ms[k].pat]),
                 limit)

extractResultsLite(html, limit) ==
  LiteLoop(Matches(html, 1, "extractResultsLite"), 1, <<>>, limit)

\* url.match(/\/url\?q=([^&]+)/): the capture of the first place that matches
UrlQMatch(url) ==
  LET at == {i \in 1..Len(url) :
               /\ i + 5 <= Len(url)
               /\ SubSeq(url, i, i + 4) = UrlQ
               /\ url[i + 5] # "&"}
      i0 == CHOOSE i \in at : \A j \in at : i <= j
  IN IF at = {} THEN Null
     ELSE SubSeq(url, i0 + 5, IndexOf(url, "&", i0 + 5) - 1)

GoogleOwnPage(url) ==
  \/ Includes(url, <<{"www.google.com"}, {"/"}, {"search"}>>)
  \/ Includes(url, <<{"webcache.googleusercontent.com"}>>)

\* the body of the while loop of extractGoogleResults, lines 137-152
GoogleBody(m, rs) ==
  LET title == StripTitle(m.title)
      inner == IF StartsWith(m.url, UrlQ) THEN UrlQMatch(m.url) ELSE Null
      first == decodeURIComponent(inner)
      url   == IF inner # Null THEN first.val ELSE m.url
      last  == decodeURIComponent(url)
      same  == [threw |-> FALSE, results |-> rs]
  IN IF ~(Truthy(m.url) /\ title # <<>>) THEN same
     ELSE IF inner # Null /\ first.threw THEN [threw |-> TRUE, results |-> <<>>]
     ELSE IF ~(StartsWithHttp(url) /\ ~GoogleOwnPage(url)) THEN same
     ELSE IF last.threw \/ HasUrl(rs, last.val) THEN same
     ELSE [threw   |-> FALSE,
           results |-> Append(rs, [title |-> title, url |-> last.val, pos |-> m.pos,
                                   pat |-> m.pat])]

RECURSIVE GoogleWhile(_, _, _, _)
GoogleWhile(ms, k, rs, limit) ==
  IF k > Len(ms) \/ Len(rs) >= limit THEN [threw |-> FALSE, results |-> rs]
  ELSE LET r == GoogleBody(ms[k], rs) IN
         IF r.threw THEN r ELSE GoogleWhile(ms, k + 1, r.results, limit)

RECURSIVE GoogleFor(_, _, _, _)
GoogleFor(html, n, rs, limit) ==
  IF n > Len(GooglePatterns) THEN [threw |-> FALSE, results |-> rs]
  ELSE LET r == GoogleWhile(GoogleMatches(GooglePatterns[n], html), 1, rs, limit) IN
         IF r.threw \/ Len(r.results) >= limit THEN r
         ELSE GoogleFor(html, n + 1, r.results, limit)

\* extractGoogleResults: [threw, results]
extractGoogleResults(html, limit) == GoogleFor(html, 1, <<>>, limit)

BingOwnPage(url) ==
  \/ Includes(url, <<{"www.bing.com"}, {"/"}, {"search"}>>)
  \/ Includes(url, <<{"go.microsoft.com"}, {"/"}>>)

\* the body of the while loop of extractBingResults, lines 169-178
BingBody(m, rs) ==
  LET title == StripTitle(m.title)
      last  == decodeURIComponent(m.url)
      same  == [threw |-> FALSE, results |-> rs]
  IN IF ~(/\ Truthy(m.url) /\ title # <<>>
          /\ StartsWithHttp(m.url) /\ ~BingOwnPage(m.url)) THEN same
     ELSE IF last.threw \/ HasUrl(rs, last.val) THEN same
     ELSE [threw   |-> FALSE,
           results |-> Append(rs, [title |-> title, url |-> last.val, pos |-> m.pos,
                                   pat |-> m.pat])]

RECURSIVE BingWhile(_, _, _, _)
BingWhile(ms, k, rs, limit) ==
  IF k > Len(ms) \/ Len(rs) >= limit THEN [threw |-> FALSE, results |-> rs]
  ELSE LET r == BingBody(ms[k], rs) IN
         IF r.threw THEN r ELSE BingWhile(ms, k + 1, r.results, limit)

RECURSIVE BingFor(_, _, _, _)
BingFor(html, n, rs, limit) ==
  IF n > Len(BingPatterns) THEN [threw |-> FALSE, results |-> rs]
  ELSE LET r == BingWhile(BingMatches(BingPatterns[n], html), 1, rs, limit) IN
         IF r.threw \/ Len(r.results) >= limit THEN r
         ELSE BingFor(html, n + 1, r.results, limit)

\* extractBingResults: [threw, results]
extractBingResults(html, limit) == BingFor(html, 1, <<>>, limit)

---------------------------------------------------------------------------
(* Request parameters *)

Digits == <<"0", "1", "2", "3", "4", "5", "6", "7", "8", "9">>

IsDigit(c) == \E d \in 1..Len(Digits) : Digits[d] = c

DigitVal(c) == (CHOOSE d \in 1..Len(Digits) : Digits[d] = c) - 1

\* the value of the leading digits of s, given the value acc read so far
RECURSIVE DigitsVal(_, _)
DigitsVal(s, acc) ==
  IF s # <<>> /\ IsDigit(Head(s)) THEN DigitsVal(Tail(s), 10 * acc + DigitVal(Head(s)))
  ELSE acc

\* parseInt(s): leading blanks, a sign, then the leading decimal digits;
\* NaN when there is none.  [nan, val]
parseInt(s) ==
  LET t   == TrimStart(s)
      neg == t # <<>> /\ t[1] = "-"
      u   == IF t # <<>> /\ t[1] \in {"-", "+"} THEN Tail(t) ELSE t
  IN IF u = <<>> \/ ~IsDigit(u[1]) THEN [nan |-> TRUE, val |-> 0]
     ELSE [nan |-> FALSE, val |-> IF neg THEN 0 - DigitsVal(u, 0) ELSE DigitsVal(u, 0)]

Max(a, b) == IF a >= b THEN a ELSE b
Min(a, b) == IF a <= b THEN a ELSE b

\* the clamp with the upper limit forgotten
Clamp_noUpper(n) == Max(1, n)

\* Math.max(1, Math.min(20, maxResults))
Clamp(n) == Max(1, Min(20, n))

\* getParams taking q as it comes, blanks and all
getParams_noTrim(params) ==
  LET qq == OrElse(params.q, <<>>)
      n  == parseInt(OrElse(params.max_results, <<"1", "0">>))
  IN IF qq = <<>> THEN [threw |-> TRUE, q |-> qq, maxResults |-> 0]
     ELSE [threw |-> FALSE, q |-> qq,
           maxResults |-> Clamp(IF n.nan THEN 10 ELSE n.val)]

\* getParams: [threw, q, maxResults]; it throws
\* Error("Missing required parameter: q") when q is absent or blank
getParams(params) ==
  LET qq == Trim(OrElse(params.q, <<>>))
      n  == parseInt(OrElse(params.max_results, <<"1", "0">>))
  IN IF qq = <<>> THEN [threw |-> TRUE, q |-> qq, maxResults |-> 0]
     ELSE [threw |-> FALSE, q |-> qq,
           maxResults |-> Clamp(IF n.nan THEN 10 ELSE n.val)]

\* String.prototype.toLowerCase on the words the engine parameter uses
LowerWord(c) ==
  CASE c = "Google" -> "google"
    [] c = "BING"   -> "bing"
    [] OTHER        -> c

toLowerCase(s) == [i \in 1..Len(s) |-> LowerWord(s[i])]

\* getSearchEngine: engines[engineName] || engines.duckduckgo.  engines is an
\* object literal, so a name it does not define itself is looked up on
\* Object.prototype: "constructor" is the function Object, "__proto__" is
\* the prototype object, which is truthy and not callable.
getSearchEngine(engineName) ==
  CASE engineName = <<"duckduckgo">>  -> "searchWithDuckDuckGo"
    [] engineName = <<"google">>      -> "searchWithGoogle"
    [] engineName = <<"bing">>        -> "searchWithBing"
    [] engineName = <<"constructor">> -> "Object"
    [] engineName = <<"__proto__">>   -> "Object.prototype"
    [] OTHER                          -> "searchWithDuckDuckGo"

\* getVqd's two expressions on the page text.
\* /vqd=['"]([^'"]+)['"]/ then /vqd=([^&"']+)/: the capture of the first place
\* that matches, or null
Quotes == {"'", "\""}

\* the end of the longest run of lexemes outside stop that starts at i
RECURSIVE RunEnd(_, _, _)
RunEnd(s, i, stop) ==
  IF i <= Len(s) /\ s[i] \notin stop THEN RunEnd(s, i + 1, stop) ELSE i - 1

VqdQuoted(html) ==
  LET at == {i \in 1..Len(html) :
               /\ html[i] = "vqd="
               /\ i + 1 <= Len(html) /\ html[i + 1] \in Quotes
               /\ RunEnd(html, i + 2, Quotes) >= i + 2
               /\ RunEnd(html, i + 2, Quotes) < Len(html)}
      i0 == CHOOSE i \in at : \A j \in at : i <= j
  IN IF at = {} THEN Null ELSE SubSeq(html, i0 + 2, RunEnd(html, i0 + 2, Quotes))

VqdBare(html) ==
  LET stop == Quotes \cup {"&"}
      at == {i \in 1..Len(html) :
               html[i] = "vqd=" /\ RunEnd(html, i + 1, stop) >= i + 1}
      i0 == CHOOSE i \in at : \A j \in at : i <= j
  IN IF at = {} THEN Null ELSE SubSeq(html, i0 + 1, RunEnd(html, i0 + 1, stop))

\* getVqd once the page text is there (lines 346-357): the token or null
vqdOfPage(html) ==
  IF Truthy(VqdQuoted(html)) THEN VqdQuoted(html)
  ELSE IF Truthy(VqdBare(html)) THEN VqdBare(html)
  ELSE Null

---------------------------------------------------------------------------
(* The JSON handlers' mappings *)

\* handleSearchAnswers, lines 301-323: the related list of RelatedTopics.
\* A topic is [Text, FirstURL, Topics, isNull]; Topics is empty when the topic
\* has none, and isNull marks a JSON null in the list, on which topic.Text
\* throws TypeError.  [threw, related]
IsDirect(t) == Truthy(t.Text) /\ Truthy(t.FirstURL)

Related(t) == [title |-> t.Text, url |-> t.FirstURL]

\* the inner loop going on past ten entries
RECURSIVE SubTopicLoop_uncapped(_, _, _)
SubTopicLoop_uncapped(subs, j, related) ==
  IF j > Len(subs) THEN related
  ELSE SubTopicLoop_uncapped(subs, j + 1,
         IF IsDirect(subs[j]) THEN Append(related, Related(subs[j])) ELSE related)

RECURSIVE SubTopicLoop(_, _, _)
SubTopicLoop(subs, j, related) ==
  IF j > Len(subs) \/ Len(related) >= 10 THEN related
  ELSE SubTopicLoop(subs, j + 1,
         IF IsDirect(subs[j]) THEN Append(related, Related(subs[j])) ELSE related)

RECURSIVE TopicLoop(_, _, _)
TopicLoop(topics, i, related) ==
  IF i > Len(topics) \/ Len(related) >= 10 THEN [threw |-> FALSE, related |-> related]
  ELSE IF topics[i].isNull THEN [threw |-> TRUE, related |-> <<>>]
  ELSE TopicLoop(topics, i + 1,
         IF IsDirect(topics[i]) THEN Append(related, Related(topics[i]))
         ELSE SubTopicLoop(topics[i].Topics, 1, related))

\* data.results.slice(0, maxResults)
Slice(items, n) == SubSeq(items, 1, Min(n, Len(items)))

\* one image record, lines 400-410: [threw, val]
ImageRecord(item, i) ==
  LET realUrl == IF Truthy(item.url) THEN decodeRedirectUrl(item.url)
                 ELSE [threw |-> FALSE, val |-> <<>>]
  IN [threw |-> realUrl.threw,
      val   |-> [title     |-> OrElse(item.title, <<>>),
                 url       |-> realUrl.val,
                 image     |-> OrElse(item.image, <<>>),
                 thumbnail |-> OrElse(item.thumbnail, <<>>),
                 height    |-> item.height,
                 width     |-> item.width,
                 source    |-> OrElse(item.source, <<>>),
                 pos       |-> i]]

\* one video record, lines 463-476: [threw, val]
VideoRecord(item, i) ==
  LET realUrl  == IF Truthy(item.content) THEN decodeRedirectUrl(item.content)
                  ELSE [threw |-> FALSE, val |-> <<>>]
      embedUrl == IF Truthy(item.embed_url) THEN decodeRedirectUrl(item.embed_url)
                  ELSE [threw |-> FALSE, val |-> <<>>]
  IN [threw |-> realUrl.threw \/ embedUrl.threw,
      val   |-> [title       |-> OrElse(item.title, <<>>),
                 description |-> OrElse(item.description, <<>>),
                 url         |-> realUrl.val,
                 embed_url   |-> embedUrl.val,
                 thumbnail   |-> OrElse(item.images.large,
                                   OrElse(item.images.medium,
                                     OrElse(item.images.small, <<>>))),
                 duration    |-> OrElse(item.duration, <<>>),
                 published   |-> OrElse(item.published, <<>>),
                 publisher   |-> OrElse(item.publisher, <<>>),
                 uploader    |-> OrElse(item.uploader, <<>>),
                 pos         |-> i]]

\* the for loop over data.results.slice(0, maxResults): [threw, results]
MediaRecord(path, item, i) ==
  IF path = "/searchImages" THEN ImageRecord(item, i) ELSE VideoRecord(item, i)

\* the for loop over data.results.slice(0, maxResults): [threw, results]
MediaResults(items, n, path) ==
  LET cut == Slice(items, n) IN
    [threw   |-> \E i \in 1..Len(cut) : MediaRecord(path, cut[i], i).threw,
     results |-> [i \in 1..Len(cut) |-> MediaRecord(path, cut[i], i).val]]

---------------------------------------------------------------------------
(* Inputs: requests and what the upstream servers answer *)

\* the longest upstream page (in elements) and JSON list (in items)
MaxDoc == 3

SeqsUpTo(S, n) == UNION {[1..k -> S] : k \in 0..n}

Requests ==
  {[method |-> "OPTIONS", path |-> "/search", q |-> Null, max_results |-> Null,
    engine |-> Null]}
  \cup
  [method      : {"GET"},
   path        : {"/searchAnswers", "/"},
   q           : {Null, <<" ">>, <<" ", "cat">>},
   max_results : {Null, <<"x">>, <<"0">>, <<"-", "5">>, <<"2">>, <<"1", "0", "0">>},
   engine      : {Null}]
  \cup
  [method      : {"GET"},
   path        : {"/search", "/searchImages", "/searchVideos"},
   q           : {Null, <<" ">>, <<" ", "cat">>},
   max_results : {Null, <<"0">>, <<"2">>, <<"1", "0", "0">>},
   engine      : {Null}]
  \cup
  [method      : {"GET"},
   path        : {"/search"},
   q           : {<<"cat">>},
   max_results : {Null, <<"2">>},
   engine      : {<<"Google">>, <<"BING", " ">>}]
  \cup
  [method      : {"GET"},
   path        : {"/search"},
   q           : {<<"cat">>},
   max_results : {Null},
   engine      : {<<"yahoo">>, <<"constructor">>, <<"__proto__">>}]

\* destinations, as the engines percent-encode them inside a redirect link
EncA       == <<"https", ":", "%", "2", "F", "%", "2", "F", "a.com", "%", "2", "F">>
UrlA       == <<"https", ":", "/", "/", "a.com", "/">>
UrlB       == <<"https", ":", "/", "/", "b.com", "/">>
DdgL       == <<"/", "/", "duckduckgo.com", "/", "l", "/", "?", "uddg", "=">>
GoogleHome == <<"https", ":", "/", "/", "www.google.com">>
BingHome   == <<"https", ":", "/", "/", "www.bing.com">>

El(l, h, t) == [layout |-> l, href |-> h, title |-> t]

\* anchors of a DuckDuckGo HTML page
LiteElems ==
  { El("result__a", DdgL \o EncA \o <<"&", "rut", "=", "x">>, <<"A">>),
    El("result__a", DdgL \o EncA \o <<"%", "2", "5", "2", "5">>, <<"<b>", "B", "</b>">>),
    El("result__a", DdgL \o EncA \o <<"%", "2", "5">>, <<"C">>),
    El("result__a", <<"/", "/", "b.com", "/">>, <<"E">>),
    El("result__a", <<"/", "l", "/", "?", "uddg", "=">> \o EncA, <<"F">>),
    El("result__a", <<"/", "/", "b.com", "/", "?", "kl", "=", "us-en">>, <<"G">>),
    El("result__a", UrlB, <<" ">>),
    El("nav", UrlA, <<"H">>) }

\* anchors of a Google result page
GoogleElems ==
  { El("plain", UrlA, <<"A">>),
    El("yuRUbf", UrlB, <<"<b>", "B", "</b>">>),
    El("plain", UrlQ \o UrlA \o <<"&", "sa", "=", "U">>, <<"C">>),
    El("plain", GoogleHome \o UrlQ \o EncA, <<"D">>),
    El("plain", GoogleHome \o <<"%", "2", "F", "search", "?", "q", "=", "cat">>, <<"E">>),
    El("plain", GoogleHome \o <<"/", "search", "?", "q", "=", "cat">>, <<"F">>),
    El("yuRUbf", UrlQ \o <<"%">>, <<"G">>),
    El("plain", <<"https", ":", "/", "/", "a.com", "%", "2", "F">>, <<"I">>),
    El("jsname", UrlQ \o UrlA \o <<"%", "2", "5", "2", "5">>, <<"J">>),
    El("data-ved", UrlB, <<" ", "K">>) }

\* anchors of a Bing result page
BingElems ==
  { El("b_algo", UrlA, <<"A">>),
    El("h2", UrlB, <<"<b>", "B", "</b>">>),
    El("b_title", <<"https", ":", "/", "/", "a.com", "%", "2", "F">>, <<"C">>),
    El("a_h2", UrlB \o <<"x">>, <<"D">>),
    El("b_algo", BingHome \o <<"/", "ck", "/", "a", "?", "u", "=">> \o EncA, <<"E">>),
    El("h2", BingHome \o <<"%", "2", "F", "search", "?", "q", "=", "cat">>, <<"F">>),
    El("h2", BingHome \o <<"/", "search", "?", "q", "=", "cat">>, <<"G">>),
    El("h2", UrlA \o <<"%">>, <<"I">>),
    El("h2", UrlA, <<" ">>) }

Docs(engine) ==
  SeqsUpTo(CASE engine = "searchWithGoogle" -> GoogleElems
             [] engine = "searchWithBing"   -> BingElems
             [] OTHER                       -> LiteElems, MaxDoc)

\* pages of duckduckgo.com/?q=...
VqdPages ==
  { <<"x", "vqd=", "\"", "4-1", "\"", "y">>,
    <<"vqd=", "4-2", "&", "x">>,
    <<"vqd=", "'", "4", "&", "3", "'">>,
    <<"vqd=", "\"", "\"">>,
    <<"vqd=", "\"", "4-1">>,
    <<"x">> }

Img(t, u) ==
  [title |-> t, url |-> u, image |-> <<"i.png">>, thumbnail |-> Null,
   height |-> 0, width |-> 2, source |-> <<"Bing">>]

ImageItems ==
  { Img(<<"A">>, DdgL \o EncA),
    Img(Null, DdgL \o EncA \o <<"%", "2", "5", "2", "5">>),
    Img(<<"C">>, DdgL \o <<"%", "F", "F">>),
    Img(<<"D">>, <<"/", "/", "b.com", "/">>),
    Img(<<"E">>, Null) }

Vid(c, e, l, m) ==
  [title |-> <<"V">>, description |-> Null, content |-> c, embed_url |-> e,
   images |-> [large |-> l, medium |-> m, small |-> <<"s.png">>],
   duration |-> <<"1:00">>, published |-> Null, publisher |-> <<"P">>,
   uploader |-> Null]

VideoItems ==
  { Vid(UrlA, DdgL \o EncA, <<"l.png">>, Null),
    Vid(DdgL \o EncA \o <<"%", "2", "5">>, Null, Null, <<"m.png">>),
    Vid(Null, <<"b.com">>, Null, Null) }

Topic(t, u, subs) == [Text |-> t, FirstURL |-> u, Topics |-> subs, isNull |-> FALSE]

\* a null among the entries of RelatedTopics
NullTopic == [Text |-> Null, FirstURL |-> Null, Topics |-> <<>>, isNull |-> TRUE]

\* a group of five valid children
BigGroup ==
  Topic(Null, Null, <<Topic(<<"g1">>, UrlA, <<>>), Topic(<<"g2">>, UrlB, <<>>),
                      Topic(<<"g3">>, UrlA, <<>>), Topic(<<"g4">>, UrlB, <<>>),
                      Topic(<<"g5">>, UrlA, <<>>)>>)

Topics ==
  { Topic(<<"t1">>, UrlA, <<>>),
    Topic(<<"t2">>, Null, <<>>),
    Topic(Null, Null, <<Topic(<<"s1">>, UrlB, <<>>), Topic(<<>>, UrlA, <<>>),
                        Topic(<<"s3">>, UrlA, <<>>)>>),
    BigGroup,
    NullTopic }

AnswerData ==
  [AbstractText : {Null, <<" ", "abs">>}, AbstractSource : {<<"Wikipedia">>},
   AbstractURL : {UrlA}, RelatedTopics : SeqsUpTo(Topics, MaxDoc)]

\* What a fetch can end in: it rejects ("throw"), it answers with a status
\* that is not 2xx ("http"), or it answers 2xx with a body that is no JSON
\* ("badjson"), an HTML page ("html", "page": body), a JSON object without
\* results ("noresults"), with results ("json": body), or an Instant Answer
\* object ("answer": data).
NoData ==
  [AbstractText |-> Null, AbstractSource |-> <<"Wikipedia">>, AbstractURL |-> UrlA,
   RelatedTopics |-> <<>>]

Up(k, ok, b) == [kind |-> k, ok |-> ok, body |-> b, data |-> NoData]

Threw   == Up("throw", FALSE, <<>>)
HttpErr == Up("http", FALSE, <<>>)
BadJson == Up("badjson", TRUE, <<>>)

SearchOutcomes(engine) ==
  {Threw, HttpErr} \cup {Up("html", TRUE, d) : d \in Docs(engine)}

AnswerOutcomes ==
  {Threw, HttpErr, BadJson}
  \cup {[Up("answer", TRUE, <<>>) EXCEPT !.data = d] : d \in AnswerData}

VqdOutcomes ==
  {Threw} \cup {Up("page", ok, p) : ok \in BOOLEAN, p \in VqdPages}

MediaOutcomes(Items) ==
  {Threw, HttpErr, BadJson, Up("noresults", TRUE, <<>>)}
  \cup {Up("json", TRUE, l) : l \in SeqsUpTo(Items, MaxDoc)}

---------------------------------------------------------------------------
(* The worker: one request at a time, from the fetch handler to its *)
(* Response; every await of an outbound fetch is a step of its own   *)

Json(kind) ==
  [kind |-> kind, error |-> "", q |-> Null, results |-> <<>>, vqd |-> Null,
   answer |-> <<>>, related |-> <<>>]

ErrorJson(msg, qq) == [Json("error") EXCEPT !.error = msg, !.q = qq]

jsonResponse(obj, status) == [status |-> status, body |-> obj]

NoReq ==
  [method |-> "", path |-> "", q |-> Null, max_results |-> Null, engine |-> Null]

NoUp == Up("none", FALSE, <<>>)

NoResp == jsonResponse(Json("none"), 0)

Init ==
  /\ pc = "idle"
  /\ req = NoReq
  /\ q = Null
  /\ maxResults = 0
  /\ searchEngine = ""
  /\ vqd = Null
  /\ calls = <<>>
  /\ inflight = 0
  /\ upstream = NoUp
  /\ resp = NoResp

\* return <Response> from the fetch handler
Return(r) == pc' = "done" /\ resp' = r

\* await fetch(url, ...): the call goes out and the handler waits at label
Fetch(to, token, label) ==
  /\ calls' = Append(calls, [to |-> to, vqd |-> token])
  /\ inflight' = inflight + 1
  /\ pc' = label
  /\ resp' = resp

\* the catch of the fetch handler, lines 37-45, for the error getParams throws
MissingQ == jsonResponse(ErrorJson("Missing required parameter: q", Null), 400)

\* any other error that reaches that catch, lines 41-44
InternalError == jsonResponse(ErrorJson("Internal error", Null), 500)

\* lines 8-13: the CORS preflight
Options(r) ==
  /\ pc = "idle" /\ r.method = "OPTIONS"
  /\ req' = r
  /\ Return([status |-> 204, body |-> Json("empty")])
  /\ UNCHANGED <<q, maxResults, searchEngine, vqd, calls, inflight, upstream>>

\* lines 28-35: no such path
NotFound(r) ==
  /\ pc = "idle" /\ r.method # "OPTIONS"
  /\ r.path \notin {"/search", "/searchAnswers", "/searchImages", "/searchVideos"}
  /\ req' = r
  /\ Return(jsonResponse(ErrorJson("Not found.", Null), 404))
  /\ UNCHANGED <<q, maxResults, searchEngine, vqd, calls, inflight, upstream>>

\* handleSearch up to the await of the engine's fetch.  Object(q, maxResults)
\* is the String object of q, which JSON.stringify writes as a string; calling
\* Object.prototype is a TypeError inside the try.
handleSearch(r) ==
  LET p      == getParams(r)
      engine == Trim(toLowerCase(OrElse(r.engine, <<"duckduckgo">>)))
      se     == getSearchEngine(engine)
  IN /\ pc = "idle" /\ r.method # "OPTIONS" /\ r.path = "/search"
     /\ req' = r
     /\ UNCHANGED <<vqd, upstream>>
     /\ IF p.threw
        THEN /\ Return(MissingQ)
             /\ UNCHANGED <<q, maxResults, searchEngine, calls, inflight>>
        ELSE /\ q' = p.q /\ maxResults' = p.maxResults /\ searchEngine' = se
             /\ CASE se = "Object" ->
                       /\ Return(jsonResponse([Json("string") EXCEPT !.q = p.q], 200))
                       /\ UNCHANGED <<calls, inflight>>
                  [] se = "Object.prototype" ->
                       /\ Return(jsonResponse(
                            ErrorJson("searchEngine is not a function", p.q), 502))
                       /\ UNCHANGED <<calls, inflight>>
                  [] OTHER -> Fetch(se, Null, "search")

\* the extractor each engine function runs on the page
extract(engine, html, limit) ==
  CASE engine = "searchWithGoogle" -> extractGoogleResults(html, limit)
    [] engine = "searchWithBing"   -> extractBingResults(html, limit)
    [] OTHER                       -> extractResultsLite(html, limit)

\* searchWithDuckDuckGo / searchWithGoogle / searchWithBing after the fetch,
\* and the try / catch of handleSearch around it, lines 264-272
WebResponse(engine, qq, limit, up) ==
  LET x == extract(engine, up.body, limit) IN
    CASE up.kind = "throw" -> jsonResponse(ErrorJson("fetch failed", qq), 502)
      [] ~up.ok -> jsonResponse(ErrorJson("HTTP error", qq), 502)
      [] x.threw -> jsonResponse(ErrorJson("URI malformed", qq), 502)
      [] OTHER -> jsonResponse(
           [Json("results") EXCEPT !.q = qq, !.results = x.results], 200)

SearchFetched(up) ==
  /\ pc = "search"
  /\ upstream' = up
  /\ inflight' = inflight - 1
  /\ Return(WebResponse(searchEngine, q, maxResults, up))
  /\ UNCHANGED <<req, q, maxResults, searchEngine, vqd, calls>>

\* handleSearchAnswers up to the await of its fetch
handleSearchAnswers(r) ==
  LET p == getParams(r) IN
  /\ pc = "idle" /\ r.method # "OPTIONS" /\ r.path = "/searchAnswers"
  /\ req' = r
  /\ UNCHANGED <<maxResults, searchEngine, vqd, upstream>>
  /\ IF p.threw
     THEN Return(MissingQ) /\ UNCHANGED <<q, calls, inflight>>
     ELSE q' = p.q /\ Fetch("api.duckduckgo.com", Null, "answers")

\* handleSearchAnswers after the fetch, lines 285-329.  Nothing in the handler
\* catches: a rejected fetch and a body that is no JSON reach the catch of the
\* fetch handler.
AnswerResponse(qq, up) ==
  LET abstract == Trim(OrElse(up.data.AbstractText, <<>>))
      answer   == IF abstract # <<>>
                  THEN <<[abstract        |-> abstract,
                          abstract_source |-> up.data.AbstractSource,
                          abstract_url    |-> up.data.AbstractURL]>>
                  ELSE <<>>
      related  == TopicLoop(up.data.RelatedTopics, 1, <<>>)
  IN CASE up.kind = "throw" -> InternalError
       [] ~up.ok -> jsonResponse(ErrorJson("HTTP error", Null), 502)
       [] up.kind = "badjson" -> InternalError
       [] related.threw -> InternalError
       [] OTHER -> jsonResponse(
            [Json("answer") EXCEPT !.q = qq, !.answer = answer,
                                   !.related = related.related], 200)

AnswersFetched(up) ==
  /\ pc = "answers"
  /\ upstream' = up
  /\ inflight' = inflight - 1
  /\ Return(AnswerResponse(q, up))
  /\ UNCHANGED <<req, q, maxResults, searchEngine, vqd, calls>>

\* handleSearchImages / handleSearchVideos up to the await inside getVqd
handleSearchImages(r) ==
  LET p == getParams(r) IN
  /\ pc = "idle" /\ r.method # "OPTIONS" /\ r.path = "/searchImages"
  /\ req' = r
  /\ UNCHANGED <<searchEngine, vqd, upstream>>
  /\ IF p.threw
     THEN Return(MissingQ) /\ UNCHANGED <<q, maxResults, calls, inflight>>
     ELSE /\ q' = p.q /\ maxResults' = p.maxResults
          /\ Fetch("duckduckgo.com", Null, "vqd")

handleSearchVideos(r) ==
  LET p == getParams(r) IN
  /\ pc = "idle" /\ r.method # "OPTIONS" /\ r.path = "/searchVideos"
  /\ req' = r
  /\ UNCHANGED <<searchEngine, vqd, upstream>>
  /\ IF p.threw
     THEN Return(MissingQ) /\ UNCHANGED <<q, maxResults, calls, inflight>>
     ELSE /\ q' = p.q /\ maxResults' = p.maxResults
          /\ Fetch("duckduckgo.com", Null, "vqd")

\* getVqd after its fetch: the token of the page, null when the fetch or the
\* reading of the body threw; response.ok is not looked at
getVqd(up) == IF up.kind = "throw" THEN Null ELSE vqdOfPage(up.body)

\* the test of the token left out
NoToken_never(token) == FALSE

\* if (!vqd), lines 369 and 432
NoToken(token) == ~Truthy(token)

\* getVqd returns into handleSearchImages / handleSearchVideos, lines 368-385
\* and 431-448: without a token the handler answers 502, with one it issues
\* the fetch of i.js / v.js
VqdFetched(up) ==
  LET token == getVqd(up) IN
  /\ pc = "vqd"
  /\ upstream' = up
  /\ vqd' = token
  /\ IF NoToken(token)
     THEN /\ Return(jsonResponse(ErrorJson("Failed to get vqd token", q), 502))
          /\ inflight' = inflight - 1
          /\ calls' = calls
     ELSE /\ calls' = Append(calls,
                        [to  |-> IF req.path = "/searchImages" THEN "duckduckgo.com/i.js"
                                 ELSE "duckduckgo.com/v.js",
                         vqd |-> token])
          /\ inflight' = (inflight - 1) + 1
          /\ pc' = IF req.path = "/searchImages" THEN "images" ELSE "videos"
          /\ resp' = resp
  /\ UNCHANGED <<req, q, maxResults, searchEngine>>

\* the try / catch around the second fetch, lines 379-424 and 442-490
MediaResponse(up, x, failed) ==
  CASE up.kind = "throw" -> jsonResponse(ErrorJson(failed, q), 502)
    [] ~up.ok -> jsonResponse(ErrorJson("HTTP error", q), 502)
    [] up.kind = "badjson" -> jsonResponse(ErrorJson(failed, q), 502)
    [] up.kind = "noresults" ->
         jsonResponse([Json("media") EXCEPT !.q = q, !.vqd = vqd], 200)
    [] x.threw -> jsonResponse(ErrorJson(failed, q), 502)
    [] OTHER -> jsonResponse(
         [Json("media") EXCEPT !.q = q, !.vqd = vqd, !.results = x.results], 200)

ImagesFetched(up) ==
  /\ pc = "images"
  /\ upstream' = up
  /\ inflight' = inflight - 1
  /\ Return(MediaResponse(up, MediaResults(up.body, maxResults, "/searchImages"),
                          "Failed to fetch images"))
  /\ UNCHANGED <<req, q, maxResults, searchEngine, vqd, calls>>

VideosFetched(up) ==
  /\ pc = "videos"
  /\ upstream' = up
  /\ inflight' = inflight - 1
  /\ Return(MediaResponse(up, MediaResults(up.body, maxResults, "/searchVideos"),
                          "Failed to fetch videos"))
  /\ UNCHANGED <<req, q, maxResults, searchEngine, vqd, calls>>

---------------------------------------------------------------------------
(* The EdgeOne variant, src/edge-functions/search.ts.  getParams, the        *)
(* decoder, extractResultsLite, extractGoogleResults, getVqd and the bodies  *)
(* of the four handlers are the text of the Cloudflare variant; the file has *)
(* no extractBingResults and no searchWithBing, and it routes on the type    *)
(* parameter.  Each handler is given as the Response it returns for a        *)
(* request and for what its fetches end in.                                  *)

\* getSearchEngine of search.ts: the table holds duckduckgo and google only
getSearchEngineEdge(engineName) ==
  CASE engineName = <<"duckduckgo">>  -> "searchWithDuckDuckGo"
    [] engineName = <<"google">>      -> "searchWithGoogle"
    [] engineName = <<"constructor">> -> "Object"
    [] engineName = <<"__proto__">>   -> "Object.prototype"
    [] OTHER                          -> "searchWithDuckDuckGo"

\* handleWebSearch, with up what the fetch of the engine function ends in
handleWebSearch(r, up) ==
  LET p      == getParams(r)
      engine == Trim(toLowerCase(OrElse(r.engine, <<"duckduckgo">>)))
      se     == getSearchEngineEdge(engine)
  IN IF p.threw THEN MissingQ
     ELSE CASE se = "Object" -> jsonResponse([Json("string") EXCEPT !.q = p.q], 200)
            [] se = "Object.prototype" ->
                 jsonResponse(ErrorJson("searchEngine is not a function", p.q), 502)
            [] OTHER -> WebResponse(se, p.q, p.maxResults, up)

\* handleAnswersSearch, with up what the fetch of api.duckduckgo.com ends in
handleAnswersSearch(r, up) ==
  LET p == getParams(r) IN
    IF p.threw THEN MissingQ ELSE AnswerResponse(p.q, up)

\* handleImageSearch / handleVideoSearch, with token what getVqd returned and
\* up what the fetch of i.js / v.js ends in
handleMediaSearch(r, path, failed, token, up) ==
  LET p == getParams(r) IN
    IF p.threw THEN MissingQ
    ELSE IF NoToken(token)
    THEN jsonResponse(ErrorJson("Failed to get vqd token", p.q), 502)
    ELSE MediaResponse(up, MediaResults(up.body, p.maxResults, path), failed)

\* onRequestGet: the switch on the type parameter and the catch around it
onRequestGet(r, type, token, up) ==
  CASE type = "web"     -> handleWebSearch(r, up)
    [] type = "answers" -> handleAnswersSearch(r, up)
    [] type = "images"  ->
         handleMediaSearch(r, "/searchImages", "Failed to fetch images", token, up)
    [] type = "videos"  ->
         handleMediaSearch(r, "/searchVideos", "Failed to fetch videos", token, up)
    [] OTHER -> jsonResponse(ErrorJson("Invalid type parameter", Null), 400)

---------------------------------------------------------------------------

\* The Response is sent; the worker keeps nothing from one request to the next.
NextRequest ==
  /\ pc = "done"
  /\ pc' = "idle"
  /\ req' = NoReq /\ q' = Null /\ maxResults' = 0 /\ searchEngine' = ""
  /\ vqd' = Null /\ calls' = <<>> /\ inflight' = 0
  /\ upstream' = NoUp /\ resp' = NoResp

Next ==
  \/ pc = "idle" /\ \E r \in Requests : Options(r)
  \/ pc = "idle" /\ \E r \in Requests : NotFound(r)
  \/ pc = "idle" /\ \E r \in Requests : handleSearch(r)
  \/ pc = "search" /\ \E up \in SearchOutcomes(searchEngine) : SearchFetched(up)
  \/ pc = "idle" /\ \E r \in Requests : handleSearchAnswers(r)
  \/ pc = "answers" /\ \E up \in AnswerOutcomes : AnswersFetched(up)
  \/ pc = "idle" /\ \E r \in Requests : handleSearchImages(r)
  \/ pc = "idle" /\ \E r \in Requests : handleSearchVideos(r)
  \/ pc = "vqd" /\ \E up \in VqdOutcomes : VqdFetched(up)
  \/ pc = "images" /\ \E up \in MediaOutcomes(ImageItems) : ImagesFetched(up)
  \/ pc = "videos" /\ \E up \in MediaOutcomes(VideoItems) : VideosFetched(up)
  \/ NextRequest

Spec == Init /\ [][Next]_vars

---------------------------------------------------------------------------
(* Properties *)

Waiting == {"search", "answers", "vqd", "images", "videos"}

WebEngines == {"searchWithDuckDuckGo", "searchWithGoogle", "searchWithBing"}

\* the Response carries a list of web results / of image or video results
WebDone   == pc = "done" /\ resp.body.kind = "results"
MediaDone == pc = "done" /\ resp.body.kind = "media"

C3_NoDuplicateUrl ==
  WebDone /\ searchEngine \in {"searchWithGoogle", "searchWithBing"} =>
    \A i, j \in 1..Len(resp.body.results) :
      i # j => resp.body.results[i].url # resp.body.results[j].url

\* C3: two anchors of the page, with different hrefs, each give a record of
\* the same final url when alone, and the list holds that url once.
C3_Witness ==
  /\ WebDone /\ searchEngine = "searchWithGoogle" /\ maxResults >= 2
  /\ \E i, j \in 1..Len(upstream.body) :
       LET a == extractGoogleResults(<<upstream.body[i]>>, 1).results
           b == extractGoogleResults(<<upstream.body[j]>>, 1).results
       IN /\ i < j /\ upstream.body[i].href # upstream.body[j].href
          /\ a # <<>> /\ b # <<>> /\ a[1].url = b[1].url
          /\ Cardinality({k \in 1..Len(resp.body.results) :
                            resp.body.results[k].url = a[1].url}) = 1

\* the href, or the item url, a record was taken from
SourceOf(r) == upstream.body[r.pos]

Results == {resp.body.results[k] : k \in 1..Len(resp.body.results)}

\* the raw (still encoded) value of the first name=... of the query of s
RawParam(s, name) ==
  LET parts == Split(UrlQuery(s), "&")
      hits  == {i \in 1..Len(parts) : StartsWith(parts[i], name \o <<"=">>)}
      i0    == CHOOSE i \in hits : \A j \in hits : i <= j
  IN IF hits = {} THEN Null ELSE From(parts[i0], Len(name) + 2)

Normalized(h) == IF StartsWith(h, <<"/", "/">>) THEN <<"https", ":">> \o h ELSE h

\* h is a well-formed DuckDuckGo redirect link: its encoded destination
DdgWrapped(h) ==
  IF UrlParses(Normalized(h)) /\ Normalized(h)[5] = "duckduckgo.com"
  THEN RawParam(Normalized(h), <<"uddg">>) ELSE Null

\* h is a Google /url?q= link, relative or absolute: its encoded destination
GoogleWrapped(h) ==
  IF StartsWith(h, UrlQ) \/ StartsWith(h, GoogleHome \o UrlQ)
  THEN RawParam(h, <<"q">>) ELSE Null

\* h is a Bing /ck/a redirect link: its encoded destination
BingWrapped(h) ==
  IF StartsWith(h, BingHome \o <<"/", "ck", "/", "a", "?">>)
  THEN RawParam(h, <<"u">>) ELSE Null

Wrapped(engine, h) ==
  CASE engine = "searchWithGoogle" -> GoogleWrapped(h)
    [] engine = "searchWithBing"   -> BingWrapped(h)
    [] OTHER                       -> DdgWrapped(h)

\* C2: a record taken from an engine redirect link carries the wrapped
\* destination, decoded one layer or more, and never the link itself.
C2_UrlIsDestination ==
  WebDone /\ searchEngine \in WebEngines =>
    \A r \in Results :
      LET h == SourceOf(r).href
          w == Wrapped(searchEngine, h)
      IN Truthy(w) /\ CanDecode(w) =>
           /\ r.url # h
           /\ r.url \in {PctDecode(w), PctDecode(PctDecode(w))}

\* C4: no url the Google or Bing extractor returns holds the engine's own
\* search-page pattern.
C4_NoOwnPage ==
  WebDone =>
    /\ searchEngine = "searchWithGoogle" => \A r \in Results : ~GoogleOwnPage(r.url)
    /\ searchEngine = "searchWithBing" => \A r \in Results : ~BingOwnPage(r.url)

\* C5 as claimed: every extractor returns its records in page order.
C5_DocumentOrder ==
  WebDone \/ MediaDone =>
    \A i, j \in 1..Len(resp.body.results) :
      i < j => resp.body.results[i].pos < resp.body.results[j].pos

\* the place of expression n in the list the engine's extractor walks
Rank(engine, n) ==
  LET ps == CASE engine = "searchWithGoogle" -> GooglePatterns
              [] engine = "searchWithBing"   -> BingPatterns
              [] OTHER                       -> <<1>>
  IN CHOOSE k \in 1..Len(ps) : ps[k] = n

\* C5 amended: the records of one expression are in page order, the records
\* of an earlier expression of the list come before those of a later one, and
\* the list is the beginning of what the page yields without a limit; image
\* and video records are in the order of the JSON list.
C5_PatternThenDocumentOrder ==
  /\ MediaDone =>
       \A i, j \in 1..Len(resp.body.results) :
         i < j => resp.body.results[i].pos < resp.body.results[j].pos
  /\ WebDone =>
       LET rs   == resp.body.results
           full == extract(searchEngine, upstream.body, 20)
       IN /\ \A i, j \in 1..Len(rs) :
               i < j =>
                 \/ Rank(searchEngine, rs[i].pat) < Rank(searchEngine, rs[j].pat)
                 \/ rs[i].pat = rs[j].pat /\ rs[i].pos < rs[j].pos
          /\ ~full.threw =>
               rs = SubSeq(full.results, 1, Min(maxResults, Len(full.results)))

\* C5: two expressions of the Google extractor contribute, and a record of
\* a later anchor stands before a record of an earlier one.
C5_Witness ==
  /\ WebDone /\ searchEngine = "searchWithGoogle"
  /\ \E i, j \in 1..Len(resp.body.results) :
       /\ i < j
       /\ resp.body.results[i].pat # resp.body.results[j].pat
       /\ resp.body.results[i].pos > resp.body.results[j].pos

MediaPaths == {"/searchImages", "/searchVideos"}

DataCalls == {"duckduckgo.com/i.js", "duckduckgo.com/v.js"}

\* C6: an image or video request that passed getParams has issued the token
\* fetch first and once; a data fetch follows only a token that is not empty
\* and carries it; without a token the request ends 502 after that one call;
\* no request issues more than two calls, and never two at a time.
C6_TokenProtocol ==
  /\ inflight \in {0, 1} /\ Len(calls) <= 2
  /\ inflight = 1 <=> pc \in Waiting
  /\ req.path \in MediaPaths =>
       /\ pc = "vqd" => Len(calls) = 1 /\ calls[1].to = "duckduckgo.com"
       /\ pc \in {"images", "videos"} \/ (pc = "done" /\ resp.status # 400) =>
            /\ Len(calls) >= 1 /\ calls[1].to = "duckduckgo.com"
            /\ Len(calls) = 2 =>
                 /\ calls[2].to \in DataCalls
                 /\ Truthy(vqd) /\ calls[2].vqd = vqd
            /\ pc = "done" /\ ~Truthy(vqd) => Len(calls) = 1 /\ resp.status = 502
            /\ pc = "done" /\ Truthy(vqd) => Len(calls) = 2
       /\ pc = "done" /\ resp.status = 400 => calls = <<>>

\* C6: an image search that went through both calls and answered with records
C6_Witness ==
  /\ MediaDone /\ req.path = "/searchImages" /\ resp.status = 200
  /\ Len(calls) = 2 /\ calls[2].vqd = <<"4-2">>
  /\ resp.body.results # <<>>

\* C7: whenever the last outbound fetch failed, answered with a status that is
\* not a success, or its body could not be parsed, the Response is 502.
C7_UpstreamFailureIs502 ==
  pc = "done" /\ upstream.kind \in {"throw", "http", "badjson"} => resp.status = 502

\* C8: a web search whose page was fetched answers with a success Response
\* that holds the records found.
C8_ExtractionNeverFails ==
  pc = "done" /\ upstream.kind = "html" =>
    resp.status = 200 /\ resp.body.kind = "results"

\* what went into decodeRedirectUrl and what came out, for the records of the
\* Response: the hrefs of a DuckDuckGo page, the urls of an image list
DecoderPairs ==
  IF WebDone /\ searchEngine = "searchWithDuckDuckGo"
  THEN {[in |-> SourceOf(r).href, out |-> r.url] : r \in Results}
  ELSE IF MediaDone /\ req.path = "/searchImages" /\ upstream.kind = "json"
  THEN {[in |-> SourceOf(r).url, out |-> r.url] :
          r \in {x \in Results : Truthy(SourceOf(x).url)}}
  ELSE {}

\* C9: for a well-formed DuckDuckGo redirect link with a uddg parameter the
\* decoder returns the value of that parameter percent-decoded once.
C9_UddgDecodedOnce ==
  \A p \in DecoderPairs :
    LET w == DdgWrapped(p.in) IN
      Truthy(w) /\ CanDecode(w) => p.out = PctDecode(w)

\* the decoder has to hand its input back: the URL does not parse, or it has
\* neither uddg nor kl, or the value the link gives the parameter it takes
\* cannot be percent-decoded
HandsBack(h) ==
  LET u    == Normalized(h)
      uddg == SearchParamsGet(u, <<"uddg">>)
      kl   == SearchParamsGet(u, <<"kl">>)
  IN \/ ~UrlParses(u)
     \/ ~Truthy(uddg) /\ ~Truthy(kl)
     \/ Truthy(uddg) /\ ~CanDecode(RawParam(u, <<"uddg">>))
     \/ ~Truthy(uddg) /\ Truthy(kl) /\ ~CanDecode(RawParam(u, <<"kl">>))

\* C10: decodeRedirectUrl never raises (a DuckDuckGo page and an image list
\* that were fetched always give a 200), and it returns its input unchanged
\* when the input does not parse, when the value of its parameter cannot be
\* percent-decoded, and when there is neither uddg nor kl.
C10_DecoderHandsBack ==
  /\ pc = "done" /\ upstream.kind = "html" /\ searchEngine = "searchWithDuckDuckGo"
       => resp.status = 200
  /\ pc = "done" /\ upstream.kind = "json" /\ req.path = "/searchImages"
       => resp.status = 200
  /\ \A p \in DecoderPairs : HandsBack(p.in) => p.out = p.in

\* the valid entries a topic stands for: itself when it is direct, else its
\* valid children in order
Entries(t) ==
  IF IsDirect(t) THEN <<Related(t)>>
  ELSE [k \in 1..Len(SelectSeq(t.Topics, IsDirect)) |->
          Related(SelectSeq(t.Topics, IsDirect)[k])]

\* the depth-first traversal of the first n topics
RECURSIVE Flat(_, _)
Flat(topics, n) ==
  IF n = 0 THEN <<>> ELSE Flat(topics, n - 1) \o Entries(topics[n])

\* the topics that have to be read to find ten valid entries: all of them
\* when there are fewer
RECURSIVE Needed(_, _)
Needed(topics, n) ==
  IF n >= Len(topics) \/ Len(Flat(topics, n)) >= 10 THEN n
  ELSE Needed(topics, n + 1)

AnswerDone == pc = "done" /\ req.path = "/searchAnswers" /\ upstream.kind = "answer"

\* C11: when no null stands among the topics that have to be read, the answer
\* is a 200 whose related list is the first ten valid entries of the
\* depth-first traversal of RelatedTopics, a group standing for its valid
\* children: never more than ten, ten when there are ten, and what follows the
\* tenth is not read.
C11_FlattenFirstTen ==
  AnswerDone =>
    LET topics == upstream.data.RelatedTopics
        need   == Needed(topics, 0)
        flat   == Flat(topics, need)
    IN (\A k \in 1..need : ~topics[k].isNull) =>
         /\ resp.status = 200
         /\ Len(resp.body.related) <= 10
         /\ resp.body.related = SubSeq(flat, 1, Min(10, Len(flat)))

\* C11: two groups of five and a null after them: the list holds the ten
\* children and the null is not read
C11_Witness ==
  /\ AnswerDone /\ resp.status = 200
  /\ Len(resp.body.related) = 10
  /\ LET topics == upstream.data.RelatedTopics IN
       /\ Len(topics) = 3
       /\ topics[3].isNull
       /\ Len(Flat(topics, 2)) = 10

Endpoints == {"/search", "/searchAnswers", "/searchImages", "/searchVideos"}

\* the request in hand asks an endpoint and its q is absent, empty or blank
BlankQ ==
  /\ req.method = "GET" /\ req.path \in Endpoints
  /\ Trim(OrElse(req.q, <<>>)) = <<>>

\* C13: a request to an endpoint whose q is absent, empty or blank is answered
\* 400 with the message that names q, and no outbound call is issued for it.
C13_MissingQIs400 ==
  BlankQ =>
    /\ pc = "done"
    /\ resp.status = 400
    /\ resp.body.error = "Missing required parameter: q"
    /\ calls = <<>> /\ inflight = 0

\* C13: an image search whose q is one blank was refused before the token fetch
C13_Witness ==
  /\ BlankQ /\ pc = "done" /\ req.path = "/searchImages" /\ req.q = <<" ">>
  /\ resp.status = 400 /\ calls = <<>>

\* the engine parameter of the request in hand, lower-cased and trimmed
EngineName == Trim(toLowerCase(OrElse(req.engine, <<"duckduckgo">>)))

\* C14: a web search whose engine name is neither google nor bing is served
\* by the DuckDuckGo engine: its one call goes to DuckDuckGo, and once the
\* page is there the answer is a 200 with a {q, results} body.
C14_FallsBackToDuckDuckGo ==
  /\ req.method = "GET" /\ req.path = "/search" /\ ~BlankQ
  /\ EngineName \notin {<<"google">>, <<"bing">>}
  => /\ searchEngine = "searchWithDuckDuckGo"
     /\ Len(calls) = 1 /\ calls[1].to = "searchWithDuckDuckGo"
     /\ pc = "done" /\ upstream.kind = "html" =>
          resp.status = 200 /\ resp.body.kind = "results"

\* the type parameter that asks the EdgeOne variant what the path asks the
\* Cloudflare variant
TypeOf(path) ==
  CASE path = "/search"        -> "web"
    [] path = "/searchAnswers" -> "answers"
    [] path = "/searchImages"  -> "images"
    [] path = "/searchVideos"  -> "videos"
    [] OTHER                   -> "other"

\* C12: the Response of the Cloudflare variant is, status and body, the one
\* the EdgeOne variant returns for the same q, max_results and engine and the
\* same upstream responses.
C12_VariantsAgree ==
  pc = "done" /\ req.method = "GET" /\ req.path \in Endpoints =>
    resp = onRequestGet(req, TypeOf(req.path), vqd, upstream)

===========================================================================
